---------------------------- MODULE Spec2Model ----------------------------
(***************************************************************************)
(* Model of app.py, the AI LinkedIn Post Generator: a Streamlit script     *)
(* that is re-executed top to bottom on every user interaction.  One run   *)
(* of the script reads the sidebar widgets, possibly calls generate_posts  *)
(* (three sequential calls to the chat-completion service, a regex split   *)
(* and a banned-word filter), appends the posts to st.session_state.history*)
(* and finally renders the "View Previous Generations" expander.           *)
(*                                                                         *)
(* A Python str is a sequence of one-character strings; the alphabet is    *)
(* U+0000..U+00FF, the characters a TLA+ string can hold.  The Python      *)
(* value None is the constant None below.                                  *)
(***************************************************************************)
EXTENDS Integers, Sequences, FiniteSets, TLC

VARIABLES
    topic,          \* st.text_input("Topic*")            (line 28)
    hashtags,       \* st.checkbox("Auto-generate hashtags") (line 33)
    cta,            \* st.checkbox("Suggest Call-To-Action") (line 34)
    post_count,     \* st.slider("Number of Posts", 3, 5, 3) (line 35)
    generate_btn,   \* st.button: pressed in the current run (line 36)
    history,        \* st.session_state.history           (lines 41-42)
    pc,             \* position of the running script: "idle" between runs,
                    \* "plan" / "draft" / "extras" while that call is in flight
    plan,           \* local plan of generate_posts (line 67); <<>> in a
                    \* run of the script that has not assigned it
    posts,          \* local posts of generate_posts after the split
                    \* (lines 86-88); <<>> likewise
    calls,          \* the calls of client.chat.completions.create made in
                    \* the current run of the script, in order: the
                    \* prompt, the status and the content returned
    result,         \* <<>> or <<[posts, extras]>>: what generate_posts
                    \* returned in the current run         (line 108 / 119)
    warning,        \* st.warning shown in the current run (line 115)
    error,          \* <<>> or <<e>>: st.error shown       (line 149)
    shown_posts,    \* <<>> or <<posts>>: the "Generated LinkedIn Posts"
                    \* section of the current run          (lines 127-139)
    shown_extras,   \* <<>> or <<extras>>: the "Suggestions" section
                    \* of the current run                  (lines 141-144)
    past_view,      \* <<>> or <<runs>>: runs listed in the expander
                    \* of the current run                  (lines 154-159)
    outcome,        \* how the current run of the script went: "norun",
                    \* "rejected", "failed", "success" ("running" meanwhile)
    hist_before,    \* history as it was when the current run started
    successes,      \* number of runs in which generate_posts returned
    split_raw,      \* Post Splitter harness: input text
    split_n,        \* Post Splitter harness: post_count
    split_out       \* Post Splitter harness: <<>> or <<posts>>

app_vars == <<topic, hashtags, cta, post_count, generate_btn, history, pc, plan, posts,
              calls, result, warning, error, shown_posts, shown_extras,
              past_view, outcome, hist_before, successes>>
split_vars == <<split_raw, split_n, split_out>>
vars == <<app_vars, split_vars>>

-----------------------------------------------------------------------------
(* Python values and character classes *)

\* None: a one-element sequence whose element is not a character, so it
\* differs from every str.
None == <<"None">>

\* str(None), as an f-string formats it.
NoneText == <<"N", "o", "n", "e">>

UpperLetters == <<"A","B","C","D","E","F","G","H","I","J","K","L","M",
                  "N","O","P","Q","R","S","T","U","V","W","X","Y","Z">>
LowerLetters == <<"a","b","c","d","e","f","g","h","i","j","k","l","m",
                  "n","o","p","q","r","s","t","u","v","w","x","y","z">>
Digits == {"0","1","2","3","4","5","6","7","8","9"}

Range(s) == {s[i] : i \in DOMAIN s}

\* Case folding of re.IGNORECASE: within U+0000..U+00FF only the ASCII
\* capitals fold to a letter of a banned word.
LowerOf ==
    [c \in Range(UpperLetters) |->
        LowerLetters[CHOOSE i \in DOMAIN UpperLetters : UpperLetters[i] = c]]

Lower(c) == IF c \in DOMAIN LowerOf THEN LowerOf[c] ELSE c

\* The letters and numerals of U+0080..U+00FF, which \w matches in a str
\* pattern (re.UNICODE is the default).
Latin1WordChars ==
    {"ª","²","³","µ","¹","º","¼","½","¾","À","Á","Â",
     "Ã","Ä","Å","Æ","Ç","È","É","Ê","Ë","Ì","Í","Î",
     "Ï","Ð","Ñ","Ò","Ó","Ô","Õ","Ö","Ø","Ù","Ú","Û",
     "Ü","Ý","Þ","ß","à","á","â","ã","ä","å","æ","ç",
     "è","é","ê","ë","ì","í","î","ï","ð","ñ","ò","ó",
     "ô","õ","ö","ø","ù","ú","û","ü","ý","þ","ÿ"}

\* \w of the re module: letters, digits and the underscore.
WordChars ==
    Range(UpperLetters) \cup Range(LowerLetters) \cup Digits \cup {"_"}
    \cup Latin1WordChars

IsWord(c) == c \in WordChars

\* \s of the re module in a str pattern, and the characters str.strip()
\* removes: tab, newline, vertical tab, form feed, carriage return,
\* U+001C..U+001F, space, U+0085 and U+00A0.
SpaceChars ==
    {"\t", "\n", "", "\f", "\r", "", "", "", "", " ",
     "", " "}

IsSpace(c) == c \in SpaceChars

\* \d of the re module: within U+0000..U+00FF the ASCII digits.
IsDigit(c) == c \in Digits

Min(a, b) == IF a < b THEN a ELSE b

-----------------------------------------------------------------------------
(* Guardrail filter, lines 47-52 *)

banned_words == << <<"f","u","c","k">>, <<"s","h","i","t">>,
                   <<"h","a","t","e">>, <<"k","i","l","l">> >>

Removed == <<"[","r","e","m","o","v","e","d","]">>

\* rf"\b{w}\b" with re.IGNORECASE matches text[i .. i+Len(w)-1].
WordMatchAt(text, w, i) ==
    /\ i >= 1
    /\ i + Len(w) - 1 <= Len(text)
    /\ \A k \in 1..Len(w) : Lower(text[i + k - 1]) = w[k]
    /\ (i = 1 \/ ~IsWord(text[i - 1]))
    /\ (i + Len(w) > Len(text) \/ ~IsWord(text[i + Len(w)]))

\* The fragments of text left between the matches of a pattern, as re.split
\* returns them: starts is the set of positions where a match begins and
\* ends[m] the position of the last character of the match beginning at m.
Fragments(text, starts, ends) ==
    LET r == Cardinality(starts)
        nth(t) == CHOOSE m \in starts : Cardinality({x \in starts : x <= m}) = t
        from(t) == IF t = 1 THEN 1 ELSE ends[nth(t - 1)] + 1
        to(t) == IF t = r + 1 THEN Len(text) ELSE nth(t) - 1
    IN [t \in 1..(r + 1) |-> SubSeq(text, from(t), to(t))]

\* sep.join(frags)
RECURSIVE Join(_, _)
Join(frags, sep) ==
    IF Len(frags) = 0 THEN <<>>
    ELSE IF Len(frags) = 1 THEN frags[1]
    ELSE frags[1] \o sep \o Join(Tail(frags), sep)

\* re.sub(rf"\b{w}\b", "[removed]", text, flags=re.IGNORECASE): every match
\* is replaced and the text between the matches is kept.  Two matches of
\* the same word cannot overlap, a match being delimited by \b.
re_sub(w, text) ==
    LET starts == {i \in 1..Len(text) : WordMatchAt(text, w, i)}
        ends == [m \in starts |-> m + Len(w) - 1]
    IN Join(Fragments(text, starts, ends), Removed)

\* the for loop of clean_output over banned_words[k..]
RECURSIVE CleanFrom(_, _)
CleanFrom(text, k) ==
    IF k > Len(banned_words) THEN text
    ELSE CleanFrom(re_sub(banned_words[k], text), k + 1)

\* variant: the filter returns its input
clean_output_off(text) == text

clean_output(text) == CleanFrom(text, 1)

-----------------------------------------------------------------------------
(* Split of the draft into posts, lines 85-88 *)

MinPostLen == 30

\* first position >= i of text that is not whitespace (Len(text)+1 if none)
SkipSpace(text, i) ==
    CHOOSE j \in i..(Len(text) + 1) :
        /\ j = Len(text) + 1 \/ ~IsSpace(text[j])
        /\ \A k \in i..(j - 1) : IsSpace(text[k])

\* first position >= i of text that is not a digit (Len(text)+1 if none)
SkipDigits(text, i) ==
    CHOOSE j \in i..(Len(text) + 1) :
        /\ j = Len(text) + 1 \/ ~IsDigit(text[j])
        /\ \A k \in i..(j - 1) : IsDigit(text[k])

\* r"\n\s*\d+[\.\)]" matched at position i: the position of the last
\* character of the match, or 0 when there is no match at i.  \s* and \d+
\* are greedy and backtracking cannot help: the character after the run
\* of whitespace must be a digit, the one after the digits "." or ")".
MarkerEnd(text, i) ==
    IF i > Len(text) \/ text[i] # "\n" THEN 0
    ELSE LET j == SkipSpace(text, i + 1)
             k == SkipDigits(text, j)
         IN IF k > j /\ k <= Len(text) /\ text[k] \in {".", ")"} THEN k ELSE 0

\* The matches re.split finds scanning left to right: a position where the
\* pattern matches and that no earlier match covers.
MarkerStarts(text) ==
    {i \in 1..Len(text) :
        /\ MarkerEnd(text, i) > 0
        /\ \A i0 \in 1..(i - 1) : MarkerEnd(text, i0) < i}

\* re.split(r"\n\s*\d+[\.\)]", text)
re_split(text) ==
    LET ends == [m \in MarkerStarts(text) |-> MarkerEnd(text, m)]
    IN Fragments(text, MarkerStarts(text), ends)

\* last position <= i of text that is not whitespace (0 if none)
SkipSpaceBack(text, i) ==
    CHOOSE j \in 0..i :
        /\ j = 0 \/ ~IsSpace(text[j])
        /\ \A k \in (j + 1)..i : IsSpace(text[k])

\* str.strip()
strip(text) == SubSeq(text, SkipSpace(text, 1), SkipSpaceBack(text, Len(text)))

\* variant: len(p.strip()) >= 30
KeepPost_ge(p) == Len(strip(p)) >= MinPostLen

\* [p.strip() for p in posts if len(p.strip()) > 30]
KeepPost(p) == Len(strip(p)) > MinPostLen

StripAndFilter(parts) ==
    LET kept == SelectSeq(parts, KeepPost)
    IN [i \in 1..Len(kept) |-> strip(kept[i])]

\* posts[:post_count] for post_count >= 0
Truncate(ps, n) == SubSeq(ps, 1, Min(n, Len(ps)))

\* lines 86-88 for a str posts_raw
split_posts(posts_raw, n) == Truncate(StripAndFilter(re_split(posts_raw)), n)

-----------------------------------------------------------------------------
(* Inputs: widget values and contents returned by the completion service *)

MinPosts == 3
MaxPosts == 5
PreviewLen == 80

\* most successful runs of generate_posts in one session: after that many
\* the draft call only fails (it raises or returns None)
MaxRuns == 3
\* most pieces an input of the Post Splitter harness is built from
MaxPieces == 4

Rep(c, n) == [i \in 1..n |-> c]

\* a text one character longer than the threshold of line 87
Long(c) == Rep(c, MinPostLen + 1)

Topics == {<<>>, <<"A","I">>}

PlanResponses == {None, <<>>, <<"p","l","a","n">>}

ExtrasResponses == {None, <<>>, <<"#","A","I">>}

\* a short preamble, three numbered posts holding banned words as whole
\* words ("hate", "KILL", "shit") and inside longer words ("hateful",
\* "kills"), and a numbered fragment of exactly MinPostLen characters
\* after strip(), which line 87 drops
Draft3 ==
    <<"I","n","t","r","o",":">>
    \o <<"\n","1","."," ","h","a","t","e"," ">> \o Long("a")
    \o <<"\n","","2",")","">> \o Long("b") \o <<" ","K","I","L","L","!">>
    \o <<"\n","2","."," ">> \o Rep("y", MinPostLen) \o <<"","\n">>
    \o <<"\n","\n","3","."," ","h","a","t","e","f","u","l"," ","k","i","l","l","s"," ">>
    \o Long("c") \o <<" ","s","h","i","t","\n">>

\* four usable fragments: the first number is not preceded by a newline, so
\* the first fragment keeps it; post_count = 3 truncates
Draft4 ==
    <<"1","."," ">> \o Long("p") \o <<":">>
    \o <<"\n","2","."," ","F","u","c","k",","," ">> \o Long("d")
    \o <<"\n","3","."," ","f","u","c","k","_"," ">> \o Long("e")
    \o <<"\n","1","0",")"," ">> \o Long("g") \o <<" ","h","a","t","e"," ","H","a","t","e">>

DraftResponses == {None, <<>>, Draft3, Draft4}

-----------------------------------------------------------------------------
(* The script, lines 26-159.  tone, audience, length and language are only
   interpolated into the prompts and are left out. *)

\* variant: only None counts as missing ("if topic is None")
Falsy_none_only(v) == v = None

\* truth value of a str or None: "not topic" (line 114), "if extras" (141)
Falsy(v) == v = <<>> \/ v = None

\* variant: "if hashtags and cta"
WantExtras_and(h, c) == h /\ c

\* "if hashtags or cta", line 92
WantExtras(h, c) == h \/ c

\* variant: extras = None
NoExtras_None == None

\* extras = "", line 91
NoExtras == <<>>

\* {plan} in an f-string, line 74
PyStr(v) == IF v = None THEN NoneText ELSE v

\* the values interpolated into the three prompts (lines 61-66, 73-79, 93-98)
plan_prompt == [post_count |-> post_count, topic |-> topic]
gen_prompt(pl) == [plan |-> PyStr(pl), post_count |-> post_count]
extras_prompt == [topic |-> topic, hashtags |-> hashtags, cta |-> cta]

\* client.chat.completions.create(...) being issued
Call(step, prompt) ==
    [step |-> step, prompt |-> prompt, status |-> "pending", response |-> <<>>]

\* the call in flight returns content r / raises
Returned(cs, r) ==
    [cs EXCEPT ![Len(cs)] = [@ EXCEPT !.status = "returned", !.response = <<r>>]]
Raised(cs) ==
    [cs EXCEPT ![Len(cs)] = [@ EXCEPT !.status = "raised"]]

\* variant: history.insert(0, posts)
record_front(h, ps) == <<ps>> \o h

\* st.session_state.history.append(posts), line 122
record(h, ps) == Append(h, ps)

\* variant: only the entry before the last (history[-2:-1])
listPast_prev(h) == IF Len(h) < 2 THEN <<>> ELSE <<h[Len(h) - 1]>>

\* st.session_state.history[:-1], line 156
listPast(h) == SubSeq(h, 1, Len(h) - 1)

\* f"{p[:80]}...", line 159
Preview(p) == SubSeq(p, 1, Min(PreviewLen, Len(p))) \o <<".", ".", ".">>

\* the expander of lines 154-159: <<>> when it is not rendered, else the
\* runs it lists, each a sequence of previews
history_view(h) ==
    IF h # <<>>
    THEN << [i \in 1..Len(listPast(h)) |->
               [j \in 1..Len(listPast(h)[i]) |-> Preview(listPast(h)[i][j])]] >>
    ELSE <<>>

\* posts = [clean_output(p) for p in posts], line 105
Guardrail(ps) == [i \in 1..Len(ps) |-> clean_output(ps[i])]

AppInit ==
    /\ topic = <<>>
    /\ hashtags = TRUE
    /\ cta = TRUE
    /\ post_count = MinPosts
    /\ generate_btn = FALSE
    /\ history = <<>>
    /\ pc = "idle"
    /\ plan = <<>>
    /\ posts = <<>>
    /\ calls = <<>>
    /\ result = <<>>
    /\ warning = FALSE
    /\ error = <<>>
    /\ shown_posts = <<>>
    /\ shown_extras = <<>>
    /\ past_view = <<>>
    /\ outcome = "norun"
    /\ hist_before = <<>>
    /\ successes = 0

Init ==
    /\ AppInit
    /\ split_raw = <<>>
    /\ split_n = MinPosts
    /\ split_out = <<>>

\* A run of the script without the button: the user changed one sidebar
\* widget, or clicked a download button (no widget changes).  Lines 113-149
\* are skipped and the expander is rendered.
ChangeWidget ==
    /\ pc = "idle"
    /\ \E t \in Topics, h \in BOOLEAN, c \in BOOLEAN, n \in MinPosts..MaxPosts :
        /\ Cardinality({k \in 1..4 :
               <<t, h, c, n>>[k] # <<topic, hashtags, cta, post_count>>[k]}) <= 1
        /\ topic' = t
        /\ hashtags' = h
        /\ cta' = c
        /\ post_count' = n
    /\ generate_btn' = FALSE
    /\ outcome' = "norun"
    /\ hist_before' = history
    /\ calls' = <<>>
    /\ result' = <<>>
    /\ warning' = FALSE
    /\ error' = <<>>
    /\ shown_posts' = <<>>
    /\ shown_extras' = <<>>
    /\ past_view' = history_view(history)
    /\ plan' = <<>>
    /\ posts' = <<>>
    /\ UNCHANGED <<history, pc, successes, split_vars>>

\* A run of the script with the button pressed, up to the first call of
\* the service (line 67) or, for an empty topic, to the end of the script.
PressGenerate ==
    /\ pc = "idle"
    /\ generate_btn' = TRUE
    /\ hist_before' = history
    /\ result' = <<>>
    /\ error' = <<>>
    /\ shown_posts' = <<>>
    /\ shown_extras' = <<>>
    /\ IF Falsy(topic)
       THEN /\ warning' = TRUE
            /\ outcome' = "rejected"
            /\ calls' = <<>>
            /\ pc' = "idle"
            /\ past_view' = history_view(history)
       ELSE /\ warning' = FALSE
            /\ outcome' = "running"
            /\ calls' = <<Call("plan", plan_prompt)>>
            /\ pc' = "plan"
            /\ past_view' = <<>>
    /\ plan' = <<>>
    /\ posts' = <<>>
    /\ UNCHANGED <<topic, hashtags, cta, post_count, history, successes,
                   split_vars>>

\* variant: the handler also stores the posts split so far
Except_partial(e) ==
    /\ error' = <<e>>
    /\ outcome' = "failed"
    /\ pc' = "idle"
    /\ history' = Append(history, posts)
    /\ past_view' = history_view(history')
    /\ UNCHANGED <<result, shown_posts, shown_extras, warning, successes>>

\* except Exception as e: st.error(...), lines 148-149, then the expander
Except(e) ==
    /\ error' = <<e>>
    /\ outcome' = "failed"
    /\ pc' = "idle"
    /\ past_view' = history_view(history)
    /\ UNCHANGED <<history, result, shown_posts, shown_extras, warning, successes>>

\* generate_posts returns (lines 104-108); the caller appends to the history
\* and shows the results (lines 119-146), then the expander is rendered
Return(ps, extras) ==
    /\ result' = <<[posts |-> Guardrail(ps), extras |-> extras]>>
    /\ history' = record(history, Guardrail(ps))
    /\ shown_posts' = <<Guardrail(ps)>>
    /\ shown_extras' = IF Falsy(extras) THEN <<>> ELSE <<extras>>
    /\ outcome' = "success"
    /\ successes' = successes + 1
    /\ pc' = "idle"
    /\ past_view' = history_view(history')
    /\ UNCHANGED <<error, warning>>

\* the call in flight raises (authentication, quota, network ...)
CallRaises ==
    /\ pc \in {"plan", "draft", "extras"}
    /\ calls' = Raised(calls)
    /\ Except("APIError")
    /\ UNCHANGED <<topic, hashtags, cta, post_count, generate_btn, plan, posts,
                   hist_before, split_vars>>

\* the plan call returns (line 70) and the draft call is issued (line 80)
PlanReturn ==
    /\ pc = "plan"
    /\ \E r \in PlanResponses :
        /\ plan' = r
        /\ calls' = Append(Returned(calls, r), Call("draft", gen_prompt(r)))
    /\ pc' = "draft"
    /\ UNCHANGED <<topic, hashtags, cta, post_count, generate_btn, history, posts,
                   result, warning, error, shown_posts, shown_extras, past_view,
                   outcome, hist_before, successes, split_vars>>

\* the draft call returns (line 83); the split (86-88), which raises
\* TypeError on None; then the extras call is issued (line 99) or, with
\* neither checkbox set, generate_posts returns. Once MaxRuns runs have
\* been recorded the draft call returns no text any more, so that later
\* runs are rejected or fail and the history stays within the bound.
DraftReturn ==
    /\ pc = "draft"
    /\ \E r \in DraftResponses :
        IF r = None
        THEN /\ calls' = Returned(calls, r)
             /\ Except("TypeError")
             /\ UNCHANGED posts
        ELSE /\ successes < MaxRuns
             /\ posts' = split_posts(r, post_count)
             /\ IF WantExtras(hashtags, cta)
                THEN /\ calls' = Append(Returned(calls, r),
                                        Call("extras", extras_prompt))
                     /\ pc' = "extras"
                     /\ UNCHANGED <<history, result, warning, error, shown_posts,
                                    shown_extras, past_view, outcome, successes>>
                ELSE /\ calls' = Returned(calls, r)
                     /\ Return(posts', NoExtras)
    /\ UNCHANGED <<topic, hashtags, cta, post_count, generate_btn, plan,
                   hist_before, split_vars>>

\* the extras call returns (line 102) and generate_posts returns
ExtrasReturn ==
    /\ pc = "extras"
    /\ \E r \in ExtrasResponses :
        /\ calls' = Returned(calls, r)
        /\ Return(posts, r)
    /\ UNCHANGED <<topic, hashtags, cta, post_count, generate_btn, plan, posts,
                   hist_before, split_vars>>

Next ==
    \/ ChangeWidget
    \/ PressGenerate
    \/ PlanReturn
    \/ DraftReturn
    \/ ExtrasReturn
    \/ CallRaises

Spec == Init /\ [][Next]_vars

-----------------------------------------------------------------------------
(* Post Splitter on its own: lines 86-88 applied to texts built from pieces *)

SplitPieces ==
    << <<"\n","1","."," ">> \o Long("a"),
       <<"\n","","2",")">> \o Rep("b", MinPostLen) \o <<"">>,
       <<"H","i",":">>,
       Long("c"),
       <<"\n","3">>,
       <<"."," ">>,
       <<"\n"," ">> >>

SplitInputs ==
    UNION {{Join([i \in 1..k |-> SplitPieces[f[i]]], <<>>) :
               f \in [1..k -> DOMAIN SplitPieces]} : k \in 0..MaxPieces}

SplitInit ==
    /\ AppInit
    /\ split_raw \in SplitInputs
    /\ split_n \in MinPosts..MaxPosts
    /\ split_out = <<>>

SplitApply ==
    /\ split_out = <<>>
    /\ split_out' = <<split_posts(split_raw, split_n)>>
    /\ UNCHANGED <<app_vars, split_raw, split_n>>

SplitNext == SplitApply

SplitSpec == SplitInit /\ [][SplitNext]_vars

-----------------------------------------------------------------------------
(* Properties *)

\* the previews of the first k recorded runs, in recording order
PastRuns(k) ==
    [i \in 1..k |-> [j \in 1..Len(history[i]) |-> Preview(history[i][j])]]

\* C1: once N >= 1 runs have succeeded, the expander is rendered at the end
\* of every run of the script and lists exactly the first N-1 recorded runs,
\* in recording order; the Nth run is never listed.
C1_HistoryExclusion ==
    successes >= 1 =>
        /\ pc = "idle" => past_view # <<>>
        /\ past_view # <<>> =>
            /\ Len(past_view[1]) = successes - 1
            /\ past_view[1] = PastRuns(successes - 1)

C1_Witness ==
    /\ successes = 3
    /\ outcome = "failed"
    /\ past_view # <<>>
    /\ Len(past_view[1]) = 2
    /\ past_view[1][1] # past_view[1][2]
    /\ past_view[1][2] # <<>>
    /\ history[3] # history[2]

\* C2: when a run fails, the error is shown, generate_posts has returned
\* nothing, no posts are shown, the history is what it was when the run
\* started, and no call was issued after the one that failed.
C2_FailureAborts ==
    outcome = "failed" =>
        /\ error # <<>>
        /\ result = <<>>
        /\ shown_posts = <<>>
        /\ history = hist_before
        /\ pc = "idle"
        /\ calls # <<>>
        /\ calls[Len(calls)].status # "pending"
        /\ \A i \in 1..(Len(calls) - 1) : calls[i].status = "returned"

C2_Witness ==
    /\ outcome = "failed"
    /\ Len(calls) = 3
    /\ calls[3].status = "raised"
    /\ posts # <<>>
    /\ history # <<>>
    /\ posts # history[Len(history)]

\* C3: a run with the button pressed and an empty topic makes no call to the
\* service, shows the warning, returns nothing and leaves the history as it
\* was.
C3_EmptyTopicRejected ==
    (generate_btn /\ topic = <<>>) =>
        /\ outcome = "rejected"
        /\ warning
        /\ calls = <<>>
        /\ pc = "idle"
        /\ result = <<>>
        /\ error = <<>>
        /\ history = hist_before

C3_Witness ==
    /\ generate_btn
    /\ topic = <<>>
    /\ warning
    /\ history # <<>>

\* C4 as stated: after a successful run extras is present exactly when a
\* checkbox was set, and without a checkbox it is a value that a requested
\* extras call cannot produce.
C4_Original ==
    outcome = "success" =>
        /\ (result[1].extras # <<>>) <=> (hashtags \/ cta)
        /\ ~(hashtags \/ cta) => result[1].extras \notin ExtrasResponses

\* C4 amended: after a successful run the extras call was made exactly when
\* a checkbox was set; extras is the content that call returned when it was
\* made and the empty string otherwise; the Suggestions section is shown
\* exactly when extras is a non-empty string.
C4_ExtrasIffRequested ==
    outcome = "success" =>
        /\ (Len(calls) = 3) <=> (hashtags \/ cta)
        /\ (hashtags \/ cta) => result[1].extras = calls[3].response[1]
        /\ ~(hashtags \/ cta) => result[1].extras = <<>>
        /\ shown_extras = IF result[1].extras \in {<<>>, None}
                          THEN <<>> ELSE <<result[1].extras>>

C4_Witness ==
    /\ outcome = "success"
    /\ hashtags
    /\ Len(calls) = 3
    /\ calls[3].response = << <<>> >>
    /\ result[1].extras = <<>>
    /\ result[1].posts # <<>>
    /\ shown_extras = <<>>

\* C5 as stated: a plan or draft call that returns None or an empty string
\* makes the run fail.
C5_UnusableResponseFails ==
    \A i \in DOMAIN calls :
        (/\ calls[i].step \in {"plan", "draft"}
         /\ calls[i].status = "returned"
         /\ calls[i].response[1] \in {None, <<>>}) => outcome = "failed"

\* C6: the history only changes by one entry being appended at its end, in
\* the step in which generate_posts returns; its length is the number of
\* successful runs.
C6_AppendOnly ==
    /\ [][\/ history' = history
          \/ /\ pc \in {"draft", "extras"}
             /\ outcome' = "success"
             /\ successes' = successes + 1
             /\ history' = Append(history, result'[1].posts)]_vars
    /\ [](Len(history) = successes)

C6_Witness ==
    /\ successes = 2
    /\ Len(history) = 2
    /\ history[1] # history[2]
    /\ history[1] # <<>>

\* the first letters of the banned words
BannedInitials == {banned_words[k][1] : k \in DOMAIN banned_words}

\* a banned word occurs in text as a whole word, in any case (a match of a
\* word at i begins with its first letter, so only those i are tried)
HasBanned(text) ==
    \E i \in 1..Len(text) :
        /\ Lower(text[i]) \in BannedInitials
        /\ \E k \in DOMAIN banned_words : WordMatchAt(text, banned_words[k], i)

\* C7: every post returned by generate_posts and every post of the history
\* is the filtered form of a post of the split and holds no banned word as a
\* whole word; what is appended to the history is what was returned.
C7_GuardrailBeforeStore ==
    /\ \A i \in DOMAIN history : \A j \in DOMAIN history[i] :
           ~HasBanned(history[i][j])
    /\ result # <<>> =>
        /\ Len(result[1].posts) = Len(posts)
        /\ \A j \in DOMAIN posts : result[1].posts[j] = clean_output(posts[j])
        /\ \A j \in DOMAIN posts : ~HasBanned(result[1].posts[j])
        /\ history[Len(history)] = result[1].posts

C7_Witness ==
    /\ result # <<>>
    /\ \E j \in DOMAIN posts : HasBanned(posts[j])
    /\ result[1].posts # posts
    /\ history[Len(history)] = result[1].posts

\* a is a subsequence of b
RECURSIVE IsSubseq(_, _)
IsSubseq(a, b) ==
    IF Len(a) = 0 THEN TRUE
    ELSE IF Len(b) = 0 THEN FALSE
    ELSE IF Head(a) = Head(b) THEN IsSubseq(Tail(a), Tail(b))
    ELSE IsSubseq(a, Tail(b))

\* the fragments between the numbered-list markers of raw, each trimmed
TrimmedFragments(raw) ==
    [i \in 1..Len(re_split(raw)) |-> strip(re_split(raw)[i])]

\* how many fragments that follow a marker exceed the threshold
NumberedLong(raw) ==
    Cardinality({i \in 2..Len(TrimmedFragments(raw)) :
                    Len(TrimmedFragments(raw)[i]) > MinPostLen})

\* C8: the posts of the split are a subsequence of the trimmed fragments,
\* each longer than 30 characters, at most post_count of them, and exactly
\* post_count when at least post_count numbered fragments exceed 30.
C8_PostSplitter ==
    split_out # <<>> =>
        /\ IsSubseq(split_out[1], TrimmedFragments(split_raw))
        /\ \A i \in DOMAIN split_out[1] : Len(split_out[1][i]) > 30
        /\ Len(split_out[1]) <= split_n
        /\ NumberedLong(split_raw) >= split_n => Len(split_out[1]) = split_n

C8_Witness ==
    /\ split_out # <<>>
    /\ NumberedLong(split_raw) >= split_n
    /\ Len(split_out[1]) = split_n
    /\ \E i \in DOMAIN TrimmedFragments(split_raw) :
           Len(TrimmedFragments(split_raw)[i]) = 30

\* C9: the calls of a run are issued in the order plan, draft, extras, each
\* after the previous one has returned; the draft prompt holds the plan as
\* returned (None as the text "None", which is how line 74 formats it); the
\* extras call is only issued with a checkbox set, and a run that succeeds
\* has issued it exactly when a checkbox is set; a call is in flight
\* exactly while the script is suspended in it; no call follows one that
\* raised; and a plan call, the start of a pipeline run, is only issued
\* from a state in which no call of an earlier run is still in flight.
C9_SequentialCalls ==
    /\ [](/\ Len(calls) <= 3
          /\ \A i \in DOMAIN calls :
              /\ calls[i].step = <<"plan", "draft", "extras">>[i]
              /\ i < Len(calls) => calls[i].status = "returned"
          /\ Len(calls) >= 2 =>
                 calls[2].prompt.plan =
                     IF calls[1].response[1] = <<"None">>
                     THEN <<"N", "o", "n", "e">>
                     ELSE calls[1].response[1]
          /\ Len(calls) = 3 => (hashtags \/ cta)
          /\ outcome = "success" =>
              /\ Len(calls) = IF hashtags \/ cta THEN 3 ELSE 2
              /\ calls[Len(calls)].status = "returned"
          /\ pc # "idle" <=> (calls # <<>> /\ calls[Len(calls)].status = "pending")
          /\ pc # "idle" => pc = calls[Len(calls)].step)
    /\ [][/\ (pc' = "plan" /\ calls' # calls) =>
                /\ pc = "idle"
                /\ outcome # "running"
                /\ calls = <<>> \/ calls[Len(calls)].status # "pending"
          /\ (calls # <<>> /\ calls[Len(calls)].status = "pending") =>
                \/ calls' = calls
                \/ /\ Len(calls') >= Len(calls)
                   /\ \A i \in 1..(Len(calls) - 1) : calls'[i] = calls[i]
                   /\ calls'[Len(calls)].step = calls[Len(calls)].step
                   /\ calls'[Len(calls)].prompt = calls[Len(calls)].prompt
                   /\ calls'[Len(calls)].status # "pending"]_vars

C9_Witness ==
    /\ outcome = "success"
    /\ successes = 2
    /\ Len(calls) = 3
    /\ hashtags
    /\ ~cta
    /\ calls[1].response = <<None>>
    /\ calls[2].prompt.plan = NoneText

\* C10 as stated: whenever the expander is rendered, the most recent run is
\* shown as the current result in the same run of the script.
C10_LatestShown ==
    past_view # <<>> => shown_posts = <<history[Len(history)]>>

=============================================================================
